---- MODULE Spec2Model ----
(***************************************************************************)
(* A model of the chzzk VOD downloader.                                    *)
(*                                                                         *)
(*   gui.py   DownloadThread   the sequential streaming engine, run on a   *)
(*                             worker thread and flagged by pause(),       *)
(*                             resume() and stop() from the GUI thread     *)
(*   gui.py   App              the controller: onDownload, onPause,        *)
(*                             onStop, onDownloadCompleted                 *)
(*   main.py  download_video   the concurrent engine: ranged segment       *)
(*                             requests on a pool of 4 workers             *)
(*   gui.py / main.py  _get_vod_streams   the metadata resolution          *)
(*                                                                         *)
(* The requests library is modelled by what it does for this code:         *)
(* Response.iter_content() returns a fresh generator on every call; the    *)
(* first item of a fresh generator is the next chunk of the connection;    *)
(* on an exhausted connection the generator ends (next() gives the         *)
(* default, None) and marks the response consumed; iter_content() on a     *)
(* consumed streamed response raises StreamConsumedError, which is a       *)
(* RequestException.                                                       *)
(***************************************************************************)
EXTENDS Integers, Sequences, FiniteSets, TLC

\* ------------------------------------------------------------------ bounds

\* The longest source, in chunks of the sequential engine.
MaxChunks == 2

\* DownloadThread objects the App may create in one run.
MaxJobs == 2

\* paused() emissions counted per job (the poll emits one a second, forever).
MaxPausedEvents == 2

\* Distinct output paths (sanitized titles) the resolution may return.
MaxPaths == 1

\* The longest source of the concurrent engine, in segments.
MaxParts == 5

\* ------------------------------------------------------- program constants

\* iter_content(chunk_size=8192)
ChunkSize == 8192

Jobs == 1..MaxJobs

Paths == 1..MaxPaths

Min(a, b) == IF a < b THEN a ELSE b

Max(a, b) == IF a < b THEN b ELSE a

\* Body lengths the server may deliver: whole chunks, and one byte short of
\* whole chunks (a short last chunk), up to MaxChunks chunks.
SrcLens == {n \in {c * ChunkSize - r : c \in 0..MaxChunks, r \in {0, 1}} : n >= 0}

\* The bodies served in the runs of the whole App: empty, or one chunk.
AppSrcLens == {0, ChunkSize}

\* What the output path may hold before a job starts: nothing, or a file
\* of one byte.
PreLens == {0, 1}

VARIABLES
    server,     \* the body lengths the media server may deliver (never changes)
    engine,     \* "seq": gui.py's DownloadThread; "conc": main.py's download_video
    thread,     \* thread[j]: the DownloadThread object j and its worker's position
    src,        \* src[j]: the HTTP response job j reads (the server's side)
    file,       \* file[p]: the byte length of the file at output path p
    app,        \* the App widget: downloadThread and the three buttons
    queued,     \* completed() signals queued to the GUI thread, oldest first
    conc,       \* main.py's download_video: its position, segments and counter
    rs,         \* one resolution (extract_streams): its inputs, requests and result
    hist        \* hist[j]: history of job j, read only by the properties

vars == <<server, engine, thread, src, file, app, queued, conc, rs, hist>>

\* ---------------------------------------------------------- DownloadThread

NoEvents == [progress |-> 0, paused |-> 0, completed |-> 0, stopped |-> 0,
             percent |-> -1, message |-> "none"]

\* A thread object not yet constructed.
NoThread == [pc |-> "idle", is_paused |-> FALSE, is_stopped |-> FALSE,
             output_path |-> 0, total_size |-> 0, downloaded_size |-> 0,
             chunk |-> 0, fopen |-> FALSE, fpos |-> 0, connected |-> FALSE,
             events |-> NoEvents]

\* DownloadThread.__init__ followed by start(): run() is about to begin.
\* connected: whether completed() is connected to App.onDownloadCompleted.
NewThread(path, conn) ==
    [NoThread EXCEPT !.pc = "start", !.output_path = path, !.connected = conn]

NoSrc == [len |-> 0, left |-> 0, hasLength |-> FALSE, consumed |-> FALSE]

NoHist == [stopWhileActive |-> FALSE, completedAfterStop |-> FALSE,
           transportFailed |-> FALSE, requests |-> 0,
           chunksSincePause |-> 0, readsSincePause |-> 0,
           pauseSeen |-> FALSE,
           readsSinceStop |-> 0, writesSinceStop |-> 0]

\* QThread.isRunning(): start() was called and run() has not returned.
isRunning(t) == t.pc \notin {"idle", "done", "crashed"}

\* The job has emitted completed() or stopped().
Terminal(t) == t.events.completed + t.events.stopped > 0

EmitProgress(t, pct) ==
    [t EXCEPT !.events.progress = @ + 1, !.events.percent = pct]

EmitPaused(t) == [t EXCEPT !.events.paused = @ + 1]

EmitCompleted(t, msg) ==
    [t EXCEPT !.events.completed = @ + 1, !.events.message = msg]

EmitStopped(t) == [t EXCEPT !.events.stopped = @ + 1]

RECURSIVE Gcd(_, _)
Gcd(a, b) == IF b = 0 THEN a ELSE Gcd(b, a % b)

RECURSIVE PowerOfTwo(_)
PowerOfTwo(q) == q = 1 \/ (q % 2 = 0 /\ PowerOfTwo(q \div 2))

\* int((downloaded_size / total_size) * 100) in floating point. The quotient
\* is exact when the reduced denominator is a power of two; otherwise it is
\* rounded, and where the exact percentage is a whole number the product may
\* fall just below it, int() then giving one less.
PercentOutcomes(d, t) ==
    LET exact == (d * 100) \div t
    IN  IF (d * 100) % t # 0 \/ PowerOfTwo(t \div Gcd(d, t))
        THEN {exact}
        ELSE {exact, exact - 1}

\* while not self._is_stopped
LoopContinues(t) == ~t.is_stopped

\* if self._is_paused
PauseMutNeverObserved(t) == FALSE

PauseObserved(t) == t.is_paused

\* Leaving the with block closes the file.
CloseFile(t) == [t EXCEPT !.fopen = FALSE]

\* The worker emits completed(msg) and run() returns. The signal is queued
\* to the GUI thread when App connected a slot to it.
EmitCompletedAndReturn(j, msg) ==
    /\ thread' = [thread EXCEPT
           ![j] = [EmitCompleted(CloseFile(@), msg) EXCEPT !.pc = "done"]]
    /\ queued' = IF thread[j].connected THEN Append(queued, j) ELSE queued

\* def pause(self)
pause(t) == [t EXCEPT !.is_paused = TRUE]

\* def resume(self)
resume(t) == EmitPaused([t EXCEPT !.is_paused = FALSE])

\* def stop(self)
stop(t) == [t EXCEPT !.is_stopped = TRUE]

\* History kept at a pause() call: the chunks counted from a pause() that
\* finds the job running.
HistPause(h, t) ==
    IF t.is_paused THEN h
    ELSE [h EXCEPT !.chunksSincePause = 0, !.readsSincePause = 0,
                   !.pauseSeen = FALSE]

HistResume(h) == [h EXCEPT !.chunksSincePause = 0, !.readsSincePause = 0,
                           !.pauseSeen = FALSE]

\* History kept at a stop() call: whether it found the job Running or
\* Paused, that is, not yet ended.
HistStop(h, t) ==
    IF isRunning(t) /\ ~Terminal(t) THEN [h EXCEPT !.stopWhileActive = TRUE]
    ELSE h

\* ------------------------------------------------- DownloadThread.run

\* requests.get(self.video_url, stream=True); raise_for_status();
\* total_size = int(response.headers.get('content-length', 0)).
\* The server answers with a body of n bytes, announced by Content-Length
\* or not (the media is served unencoded: what iter_content yields is what
\* Content-Length counts), or the request fails with a RequestException,
\* which run() reports by completed().
RunRequest(j) ==
    /\ thread[j].pc = "start"
    /\ \/ \E n \in server, announced \in BOOLEAN :
            /\ src' = [src EXCEPT ![j] = [len |-> n, left |-> n,
                                          hasLength |-> announced,
                                          consumed |-> FALSE]]
            /\ thread' = [thread EXCEPT ![j].pc = "open",
                              ![j].total_size = IF announced THEN n ELSE 0,
                              ![j].downloaded_size = 0]
            /\ hist' = [hist EXCEPT ![j].requests = @ + 1]
            /\ UNCHANGED queued
       \/ /\ EmitCompletedAndReturn(j, "error")
          /\ hist' = [hist EXCEPT ![j].requests = @ + 1,
                                  ![j].transportFailed = TRUE,
                                  ![j].completedAfterStop = thread[j].is_stopped]
          /\ UNCHANGED src
    /\ UNCHANGED <<server, rs, engine, file, app, conc>>

\* with open(self.output_path, 'wb') as f: the file is created or truncated.
RunOpen(j) ==
    /\ thread[j].pc = "open"
    /\ thread' = [thread EXCEPT ![j].pc = "loop", ![j].fopen = TRUE,
                                ![j].fpos = 0]
    /\ file' = [file EXCEPT ![thread[j].output_path] = 0]
    /\ UNCHANGED <<server, rs, engine, src, app, queued, conc, hist>>

\* while not self._is_stopped: the loop goes on, or the with block is left
\* for the line after it.
RunLoopTest(j) ==
    /\ thread[j].pc = "loop"
    /\ thread' = [thread EXCEPT ![j] =
           IF LoopContinues(@) THEN [@ EXCEPT !.pc = "pausetest"]
           ELSE [CloseFile(@) EXCEPT !.pc = "after"]]
    /\ UNCHANGED <<server, rs, engine, src, file, app, queued, conc, hist>>

\* if self._is_paused: self.paused.emit(); QThread.sleep(1); continue
RunPauseTest(j) ==
    /\ thread[j].pc = "pausetest"
    /\ IF PauseObserved(thread[j])
       THEN /\ thread[j].events.paused < MaxPausedEvents
            /\ thread' = [thread EXCEPT
                   ![j] = [EmitPaused(@) EXCEPT !.pc = "sleep"]]
            /\ hist' = [hist EXCEPT ![j].pauseSeen = TRUE]
       ELSE /\ thread' = [thread EXCEPT ![j].pc = "read"]
            /\ UNCHANGED hist
    /\ UNCHANGED <<server, rs, engine, src, file, app, queued, conc>>

\* QThread.sleep(1) ends; continue.
RunSleep(j) ==
    /\ thread[j].pc = "sleep"
    /\ thread' = [thread EXCEPT ![j].pc = "loop"]
    /\ UNCHANGED <<server, rs, engine, src, file, app, queued, conc, hist>>

\* chunk = next(response.iter_content(chunk_size=8192), None); if chunk: ...
\*   - the response is consumed: iter_content raises StreamConsumedError,
\*     caught as RequestException: completed("... : <error>");
\*   - bytes are left: the read delivers the next chunk, or fails;
\*   - no bytes are left: the generator ends, the response becomes
\*     consumed, chunk is None and the loop goes round.
RunRead(j) ==
    /\ thread[j].pc = "read"
    /\ \/ /\ src[j].consumed
          /\ EmitCompletedAndReturn(j, "consumed")
          /\ hist' = [hist EXCEPT
                 ![j].completedAfterStop = thread[j].is_stopped]
          /\ UNCHANGED src
       \/ /\ ~src[j].consumed
          /\ src[j].left > 0
          /\ LET n == Min(ChunkSize, src[j].left)
             IN  /\ src' = [src EXCEPT ![j].left = @ - n]
                 /\ thread' = [thread EXCEPT ![j].pc = "write",
                                             ![j].chunk = n]
          /\ hist' = [hist EXCEPT
                 ![j].readsSincePause =
                     IF thread[j].is_paused THEN @ + 1 ELSE @,
                 ![j].readsSinceStop =
                     IF thread[j].is_stopped THEN @ + 1 ELSE @]
          /\ UNCHANGED queued
       \/ /\ ~src[j].consumed
          /\ src[j].left > 0
          /\ EmitCompletedAndReturn(j, "error")
          /\ hist' = [hist EXCEPT
                 ![j].transportFailed = TRUE,
                 ![j].completedAfterStop = thread[j].is_stopped]
          /\ UNCHANGED src
       \/ /\ ~src[j].consumed
          /\ src[j].left = 0
          /\ src' = [src EXCEPT ![j].consumed = TRUE]
          /\ thread' = [thread EXCEPT ![j].pc = "loop", ![j].chunk = 0]
          /\ UNCHANGED <<queued, hist>>
    /\ UNCHANGED <<server, rs, engine, file, app, conc>>

\* f.write(chunk); downloaded_size += len(chunk);
\* elapsed_time = time() - start_time; speed = downloaded_size / elapsed_time / 1024;
\* progress = int((downloaded_size / total_size) * 100); self.progress.emit(...)
\* Either division raises ZeroDivisionError when its divisor is zero: the
\* clock has not moved since start_time (ticked is false), or no
\* content-length was announced. run() catches neither: the thread dies
\* with the file closed and nothing emitted.
RunWrite(j) ==
    /\ thread[j].pc = "write"
    /\ LET t == thread[j]
           w == [t EXCEPT !.fpos = @ + t.chunk,
                          !.downloaded_size = @ + t.chunk,
                          !.chunk = 0]
       IN  /\ file' = [file EXCEPT
                  ![t.output_path] = Max(@, t.fpos + t.chunk)]
           /\ \E ticked \in BOOLEAN :
                IF ticked /\ t.total_size # 0
                THEN \E pct \in PercentOutcomes(w.downloaded_size, w.total_size) :
                        thread' = [thread EXCEPT
                            ![j] = [EmitProgress(w, pct) EXCEPT !.pc = "loop"]]
                ELSE thread' = [thread EXCEPT
                         ![j] = [CloseFile(w) EXCEPT !.pc = "crashed"]]
    /\ hist' = [hist EXCEPT
           ![j].chunksSincePause =
               IF thread[j].is_paused THEN @ + 1 ELSE @,
           ![j].writesSinceStop =
               IF thread[j].is_stopped THEN @ + 1 ELSE @]
    /\ UNCHANGED <<server, rs, engine, src, app, queued, conc>>

\* self.stopped.emit() if self._is_stopped else self.completed.emit("...")
RunAfterLoop(j) ==
    /\ thread[j].pc = "after"
    /\ IF thread[j].is_stopped
       THEN /\ thread' = [thread EXCEPT
                   ![j] = [EmitStopped(@) EXCEPT !.pc = "done"]]
            /\ UNCHANGED <<queued, hist>>
       ELSE /\ EmitCompletedAndReturn(j, "ok")
            /\ UNCHANGED hist
    /\ UNCHANGED <<server, rs, engine, src, file, app, conc>>

Run(j) ==
    \/ RunRequest(j)
    \/ RunOpen(j)
    \/ RunLoopTest(j)
    \/ RunPauseTest(j)
    \/ RunSleep(j)
    \/ RunRead(j)
    \/ RunWrite(j)
    \/ RunAfterLoop(j)

\* ------------------------------------- the control surface, called freely

Pause(j) ==
    /\ thread[j].pc # "idle"
    /\ thread' = [thread EXCEPT ![j] = pause(@)]
    /\ hist' = [hist EXCEPT ![j] = HistPause(@, thread[j])]
    /\ UNCHANGED <<server, rs, engine, src, file, app, queued, conc>>

Resume(j) ==
    /\ thread[j].pc # "idle"
    /\ thread[j].events.paused < MaxPausedEvents
    /\ thread' = [thread EXCEPT ![j] = resume(@)]
    /\ hist' = [hist EXCEPT ![j] = HistResume(@)]
    /\ UNCHANGED <<server, rs, engine, src, file, app, queued, conc>>

Stop(j) ==
    /\ thread[j].pc # "idle"
    /\ thread' = [thread EXCEPT ![j] = stop(@)]
    /\ hist' = [hist EXCEPT ![j] = HistStop(@, thread[j])]
    /\ UNCHANGED <<server, rs, engine, src, file, app, queued, conc>>

\* ------------------------------------------- main.py: download_video

\* part_size = 1024 * 1024 * 10
PartSize == 10485760

\* ThreadPoolExecutor(max_workers=4)
MaxWorkers == 4

PartIds == 0..(MaxParts - 1)

\* Content lengths the server may announce: whole segments, and half a
\* segment short of whole segments, up to MaxParts segments.
TotalSizes ==
    {n \in {c * PartSize - r : c \in 0..MaxParts, r \in {0, PartSize \div 2}} :
        n >= 0}

\* parts = total_size // part_size + (1 if total_size % part_size else 0)
PartCount(total_size) ==
    total_size \div PartSize + (IF total_size % PartSize # 0 THEN 1 ELSE 0)

\* start = part * part_size
RangeStart(part) == part * PartSize

\* end = start + part_size - 1 if (start + part_size - 1) < total_size else total_size
RangeMutEndOfFile(part, total_size) == total_size

RangeEnd(part, total_size) ==
    IF RangeStart(part) + PartSize - 1 < total_size
    THEN RangeStart(part) + PartSize - 1
    ELSE total_size

\* The bytes a server sends for 'Range: bytes=first-last' of a body of
\* total bytes (RFC 7233): a last position at or past the end stands for the
\* last byte; 0 stands for 416, no satisfiable range.
ServedLength(first, last, total) ==
    IF first >= total \/ last < first THEN 0
    ELSE Min(last, total - 1) - first + 1

NoConc == [pc |-> "idle", output_path |-> 0, total_size |-> 0, parts |-> 0,
           part |-> [p \in PartIds |-> "none"],
           got |-> [p \in PartIds |-> 0],
           sent |-> [p \in PartIds |-> 0],
           n |-> 0, written |-> <<>>, base |-> 0]

Running(c) == {p \in PartIds : c.part[p] = "running"}

Submitted(c) == {p \in PartIds : c.part[p] = "submitted"}

\* with session.get(video_url, stream=True) as r: r.raise_for_status();
\* total_size = int(r.headers.get('content-length', 0)); parts = ...;
\* every part is submitted to the executor. A failed request raises out of
\* download_video.
ConcHead ==
    /\ conc.pc = "head"
    /\ \/ \E total \in TotalSizes :
            conc' = [conc EXCEPT
                !.pc = "pool",
                !.total_size = total,
                !.parts = PartCount(total),
                !.part = [p \in PartIds |->
                             IF p < PartCount(total) THEN "submitted"
                             ELSE "none"]]
       \/ conc' = [conc EXCEPT !.pc = "raised"]
    /\ UNCHANGED <<server, rs, engine, thread, src, file, app, queued, hist>>

\* A free worker of the pool takes the next submitted part (the executor's
\* queue is first in, first out) and sends its ranged request.
ConcStartPart ==
    /\ conc.pc \in {"pool", "unwind"}
    /\ Submitted(conc) # {}
    /\ Cardinality(Running(conc)) < MaxWorkers
    /\ LET p == CHOOSE q \in Submitted(conc) :
                    \A r \in Submitted(conc) : q <= r
       IN  conc' = [conc EXCEPT !.part[p] = "running", !.sent[p] = @ + 1]
    /\ UNCHANGED <<server, rs, engine, thread, src, file, app, queued, hist>>

\* download_part returns r.content, or raises: the future is finished.
ConcFinishPart(p) ==
    /\ conc.pc \in {"pool", "unwind"}
    /\ conc.part[p] = "running"
    /\ LET len == ServedLength(RangeStart(p),
                               RangeEnd(p, conc.total_size),
                               conc.total_size)
       IN  \/ /\ len > 0
              /\ conc' = [conc EXCEPT !.part[p] = "finished", !.got[p] = len]
           \/ conc' = [conc EXCEPT !.part[p] = "failed"]
    /\ UNCHANGED <<server, rs, engine, thread, src, file, app, queued, hist>>

\* for future in as_completed(future_to_part): part_data = future.result();
\* tqdm_bar.update(len(part_data)); with open(output_path, 'ab') as file:
\* file.write(part_data). A failed future's result() raises: the with
\* block of the executor is left, which waits for the parts still queued or
\* running.
ConcTakeResult(p) ==
    /\ conc.pc = "pool"
    /\ \/ /\ conc.part[p] = "finished"
          /\ conc' = [conc EXCEPT !.part[p] = "taken",
                                  !.n = @ + conc.got[p],
                                  !.written = Append(@, p)]
          /\ file' = [file EXCEPT ![conc.output_path] = @ + conc.got[p]]
       \/ /\ conc.part[p] = "failed"
          /\ conc' = [conc EXCEPT !.part[p] = "raised", !.pc = "unwind"]
          /\ UNCHANGED file
    /\ UNCHANGED <<server, rs, engine, thread, src, app, queued, hist>>

\* Every future was taken: the executor shuts down; tqdm_bar.close();
\* print("Download completed!").
ConcMutCompleteDespiteFailure ==
    /\ conc.pc = "pool"
    /\ \A p \in PartIds : conc.part[p] \in {"none", "taken", "failed"}
    /\ conc' = [conc EXCEPT !.pc = "done"]
    /\ UNCHANGED <<server, rs, engine, thread, src, file, app, queued, hist>>

ConcComplete ==
    /\ conc.pc = "pool"
    /\ \A p \in PartIds : conc.part[p] \in {"none", "taken"}
    /\ conc' = [conc EXCEPT !.pc = "done"]
    /\ UNCHANGED <<server, rs, engine, thread, src, file, app, queued, hist>>

\* The executor's shutdown(wait=True) has waited for every part; the
\* exception of the failed part leaves download_video.
ConcRaise ==
    /\ conc.pc = "unwind"
    /\ Running(conc) = {} /\ Submitted(conc) = {}
    /\ conc' = [conc EXCEPT !.pc = "raised"]
    /\ UNCHANGED <<server, rs, engine, thread, src, file, app, queued, hist>>

\* with open(output_path, 'ab') as file: file.write(part_data): the length
\* of the file after the first i appends, that is, the offset at which the
\* next appended segment begins.
RECURSIVE Appended(_, _)
Appended(c, i) ==
    IF i = 0 THEN c.base
    ELSE Appended(c, i - 1) + c.got[c.written[i]]

Download ==
    \/ ConcHead
    \/ ConcStartPart
    \/ \E p \in PartIds : ConcFinishPart(p)
    \/ \E p \in PartIds : ConcTakeResult(p)
    \/ ConcComplete
    \/ ConcRaise

\* -------------------------------------------------------- gui.py: App

\* What extract_streams hands to onDownload: None (a bare return), the
\* tuple of five None, or (video_url, output_path, ...) with its path.
ExtractResults == {"None", "Nones", "tuple"}

\* The process runs: no unhandled exception has reached PyQt (a slot or a
\* QThread.run that raises ends the application).
HostAlive == app.alive /\ \A j \in Jobs : thread[j].pc # "crashed"

\* def onDownload(self): the button is enabled and clicked.
\*   video_url, output_path, author, title, category = extract_streams(...)
\* raises TypeError on None; a None video_url is reported; otherwise a
\* DownloadThread is made for the path, connected and started. (progress is
\* connected to updateProgress, which only sets the bar and the label.)
onDownload ==
    /\ HostAlive
    /\ app.downloadButton
    /\ app.created < MaxJobs
    /\ \E r \in ExtractResults, output_path \in Paths :
         CASE r = "None" ->
                /\ app' = [app EXCEPT !.alive = FALSE]
                /\ UNCHANGED thread
           [] r = "Nones" ->
                UNCHANGED <<app, thread>>
           [] OTHER ->
                LET j == app.created + 1
                IN  /\ thread' = [thread EXCEPT
                           ![j] = NewThread(output_path, TRUE)]
                    /\ app' = [app EXCEPT !.downloadThread = j,
                                          !.created = j,
                                          !.pauseButton = TRUE,
                                          !.stopButton = TRUE,
                                          !.downloadButton = FALSE]
    /\ UNCHANGED <<server, rs, engine, src, file, queued, conc, hist>>

\* def onPause(self): the button is enabled and clicked.
onPause ==
    /\ HostAlive
    /\ app.pauseButton
    /\ LET j == app.downloadThread
       IN  IF j # 0 /\ isRunning(thread[j])
           THEN IF thread[j].is_paused
                THEN /\ thread[j].events.paused < MaxPausedEvents
                     /\ thread' = [thread EXCEPT ![j] = resume(@)]
                     /\ hist' = [hist EXCEPT ![j] = HistResume(@)]
                     /\ app' = [app EXCEPT !.pauseText = "pause"]
                ELSE /\ thread' = [thread EXCEPT ![j] = pause(@)]
                     /\ hist' = [hist EXCEPT ![j] = HistPause(@, thread[j])]
                     /\ app' = [app EXCEPT !.pauseText = "resume"]
           ELSE UNCHANGED <<thread, hist, app>>
    /\ UNCHANGED <<server, rs, engine, src, file, queued, conc>>

\* def onStop(self): the button is enabled and clicked.
onStop ==
    /\ HostAlive
    /\ app.stopButton
    /\ LET j == app.downloadThread
       IN  IF j # 0 /\ isRunning(thread[j])
           THEN /\ thread' = [thread EXCEPT ![j] = stop(@)]
                /\ hist' = [hist EXCEPT ![j] = HistStop(@, thread[j])]
                /\ app' = [app EXCEPT !.downloadButton = TRUE,
                                      !.pauseButton = FALSE,
                                      !.stopButton = FALSE]
           ELSE UNCHANGED <<thread, hist, app>>
    /\ UNCHANGED <<server, rs, engine, src, file, queued, conc>>

\* def onDownloadCompleted(self, message): the slot of a queued completed().
onDownloadCompleted ==
    /\ HostAlive
    /\ queued # <<>>
    /\ queued' = Tail(queued)
    /\ app' = [app EXCEPT !.downloadButton = TRUE,
                          !.pauseButton = FALSE,
                          !.stopButton = FALSE]
    /\ UNCHANGED <<server, rs, engine, thread, src, file, conc, hist>>

\* A worker thread of the running application takes a step of run().
AppRun(j) == HostAlive /\ Run(j)

\* Jobs that hold the file at path p open for writing.
Writers(p) == {j \in Jobs : thread[j].fopen /\ thread[j].output_path = p}

\* ----------------------------- extract_streams and _get_vod_streams

\* "gui": gui.py, cookies passed by the caller; "cli": main.py, cookies
\* loaded from cookies.json when a credential is missing.
Variants == {"gui", "cli"}

\* The shapes of a link: /video/<digits>, /live/<slug>, anything else.
Links == {"video", "live", "other"}

\* The cookies argument (gui) or what cookies.json loads to (cli): None,
\* an empty dict, a dict of the two names with empty values (what App
\* builds from empty input fields), a dict with values.
CookieValues == {"None", "empty", "blank", "real"}

\* bool(cookies)
Truthy(cookies) == cookies \in {"blank", "real"}

\* The caller supplied cookies: a dict that holds the two cookies.
Supplied(cookies) == cookies \in {"blank", "real"}

\* What a request meets: 0 stands for a connection error or a timeout.
Statuses == {0, 200, 404, 500}

\* response.raise_for_status() raises (or requests.get did).
RaisesForStatus(status) == status = 0 \/ status >= 400

\* The content object of a well-formed body: each credential there or not.
Credentials == [video_id : {"None", "id"}, in_key : {"None", "key"}]

Complete(c) == c.video_id # "None" /\ c.in_key # "None"

Unset == [video_id |-> "unset", in_key |-> "unset"]

NewRs(variant, link, cookies) ==
    [pc |-> "extract", variant |-> variant, link |-> link,
     cookies |-> cookies, video_no |-> "unset", requests |-> <<>>,
     first |-> Unset, content |-> Unset,
     video_url |-> [composed |-> FALSE, video_id |-> "unset",
                    in_key |-> "unset"],
     manifests |-> 0, downloads |-> 0, reported |-> <<>>,
     result |-> "pending"]

\* What the function hands back when it gives up after reporting: gui.py
\* falls to 'return None, None, None, None, None', main.py off its end.
GaveUp(variant) == IF variant = "gui" THEN "Nones" ELSE "None"

\* match = re.match(...); if not match: report, return;
\* video_no = match.group("video_no")
ExtractStreams ==
    /\ rs.pc = "extract"
    /\ rs' = IF rs.link = "other"
             THEN [rs EXCEPT !.pc = "returned", !.result = "None",
                             !.reported = Append(@, "invalid link")]
             ELSE [rs EXCEPT !.pc = "info",
                       !.video_no = IF rs.link = "video" THEN "digits"
                                    ELSE "None"]
    /\ UNCHANGED <<server, engine, thread, src, file, app, queued, conc, hist>>

\* try: response = requests.get(api_url); response.raise_for_status()
\* except requests.RequestException: report, return
\* if response.status_code == 404: report, return
RequestInfo ==
    /\ rs.pc = "info"
    /\ \E status \in Statuses :
         LET sent == [rs EXCEPT !.requests =
                         Append(@, [video_no |-> rs.video_no,
                                    cookies |-> "None",
                                    status |-> status])]
         IN  rs' = IF RaisesForStatus(status)
                   THEN [sent EXCEPT !.pc = "returned", !.result = "None",
                                     !.reported = Append(@, "fetch failed")]
                   ELSE IF status = 404
                   THEN [sent EXCEPT !.pc = "returned", !.result = "None",
                                     !.reported = Append(@, "not found")]
                   ELSE [sent EXCEPT !.pc = "parse"]
    /\ UNCHANGED <<server, engine, thread, src, file, app, queued, conc, hist>>

\* content = response.json().get('content', {});
\* video_id = content.get('videoId'); in_key = content.get('inKey')
\* except json.JSONDecodeError: report
ParseInfo ==
    /\ rs.pc = "parse"
    /\ \/ \E c \in Credentials :
            rs' = [rs EXCEPT !.pc = "retry", !.first = c, !.content = c]
       \/ rs' = [rs EXCEPT !.pc = "returned", !.result = GaveUp(rs.variant),
                           !.reported = Append(@, "bad json")]
    /\ UNCHANGED <<server, engine, thread, src, file, app, queued, conc, hist>>

\* gui.py: if video_id is None or in_key is None and cookies:
\* ('and' binds tighter than 'or')
RetryMutWheneverCookies(c, cookies) == Truthy(cookies)

NeedsRetryGui(c, cookies) ==
    c.video_id = "None" \/ (c.in_key = "None" /\ Truthy(cookies))

\* main.py: if video_id is None or in_key is None:
\*              cookies = _load_cookies_from_file("cookies.json")
\*              if cookies is not None:
NeedsRetryCli(c, cookies) ==
    (c.video_id = "None" \/ c.in_key = "None") /\ cookies # "None"

NeedsRetry(variant, c, cookies) ==
    IF variant = "gui" THEN NeedsRetryGui(c, cookies)
    ELSE NeedsRetryCli(c, cookies)

\* The request is sent again with the cookies and raise_for_status() is
\* called outside any handler of RequestException: a failure leaves
\* _get_vod_streams as an exception.
RetryInfo ==
    /\ rs.pc = "retry"
    /\ IF NeedsRetry(rs.variant, rs.content, rs.cookies)
       THEN \E status \in Statuses :
              LET sent == [rs EXCEPT !.requests =
                              Append(@, [video_no |-> rs.video_no,
                                         cookies |-> rs.cookies,
                                         status |-> status])]
              IN  rs' = IF RaisesForStatus(status)
                        THEN [sent EXCEPT !.pc = "returned",
                                          !.result = "raised"]
                        ELSE [sent EXCEPT !.pc = "parse2"]
       ELSE rs' = [rs EXCEPT !.pc = "manifest"]
    /\ UNCHANGED <<server, engine, thread, src, file, app, queued, conc, hist>>

\* content = response.json().get('content', {}); video_id = ...; in_key = ...
ParseRetry ==
    /\ rs.pc = "parse2"
    /\ \/ \E c \in Credentials :
            rs' = [rs EXCEPT !.pc = "manifest", !.content = c]
       \/ rs' = [rs EXCEPT !.pc = "returned", !.result = GaveUp(rs.variant),
                           !.reported = Append(@, "bad json")]
    /\ UNCHANGED <<server, engine, thread, src, file, app, queued, conc, hist>>

\* What _print_dash_manifest meets.
Manifests == {"base url", "no base url", "fetch failed", "bad xml"}

\* video_url = VOD_URL.format(video_id=video_id, in_key=in_key);
\* base_url = _print_dash_manifest(video_url);
\* if base_url: gui.py returns the tuple; main.py calls download_video.
ResolveManifest ==
    /\ rs.pc = "manifest"
    /\ \E m \in Manifests :
         LET asked == [rs EXCEPT
                          !.video_url = [composed |-> TRUE,
                                         video_id |-> rs.content.video_id,
                                         in_key |-> rs.content.in_key],
                          !.manifests = @ + 1]
         IN  rs' = IF m = "base url"
                   THEN IF rs.variant = "gui"
                        THEN [asked EXCEPT !.pc = "returned",
                                           !.result = "tuple"]
                        ELSE [asked EXCEPT !.pc = "download",
                                           !.downloads = @ + 1]
                   ELSE [asked EXCEPT !.pc = "returned",
                                      !.result = GaveUp(rs.variant),
                                      !.reported = Append(@, m)]
    /\ UNCHANGED <<server, engine, thread, src, file, app, queued, conc, hist>>

\* main.py: download_video(base_url, output_path) returns, or raises.
DownloadVideo ==
    /\ rs.pc = "download"
    /\ \E r \in {"None", "raised"} :
         rs' = [rs EXCEPT !.pc = "returned", !.result = r]
    /\ UNCHANGED <<server, engine, thread, src, file, app, queued, conc, hist>>

\* What the caller does with the outcome. An exception that left
\* _get_vod_streams is handled nowhere: gui.py's onDownload and main.py's
\* input loop call extract_streams bare. gui.py's onDownload also unpacks
\* the result into five names, a TypeError when it is None.
EscapedFault ==
    \/ rs.result = "raised"
    \/ rs.variant = "gui" /\ rs.result = "None"

\* ------------------------------------------------------- specifications

\* App.__init__ and initUI.
NoApp == [downloadThread |-> 0, created |-> 0, alive |-> TRUE,
          downloadButton |-> TRUE, pauseButton |-> FALSE,
          stopButton |-> FALSE, pauseText |-> "pause"]

NoRs == [NewRs("gui", "other", "None") EXCEPT !.pc = "idle"]

\* One job: a DownloadThread constructed and started, its controller free.
Init ==
    /\ server = SrcLens
    /\ engine \in {"seq", "conc"}
    /\ thread = [j \in Jobs |->
                    IF j = 1 /\ engine = "seq" THEN NewThread(1, FALSE)
                    ELSE NoThread]
    /\ src = [j \in Jobs |-> NoSrc]
    /\ file \in [Paths -> PreLens]
    /\ app = NoApp
    /\ queued = <<>>
    /\ conc = IF engine = "conc"
              THEN [NoConc EXCEPT !.pc = "head", !.output_path = 1,
                                  !.base = file[1]]
              ELSE NoConc
    /\ rs = NoRs
    /\ hist = [j \in Jobs |-> NoHist]

Next ==
    \/ \E j \in Jobs : Run(j)
    \/ \E j \in Jobs : Pause(j)
    \/ \E j \in Jobs : Resume(j)
    \/ \E j \in Jobs : Stop(j)
    \/ Download

Spec == Init /\ [][Next]_vars

\* The GUI: the App window shown, nothing downloaded yet.
InitApp ==
    /\ server = AppSrcLens
    /\ engine = "seq"
    /\ thread = [j \in Jobs |-> NoThread]
    /\ src = [j \in Jobs |-> NoSrc]
    /\ file \in [Paths -> PreLens]
    /\ app = NoApp
    /\ queued = <<>>
    /\ conc = NoConc
    /\ rs = NoRs
    /\ hist = [j \in Jobs |-> NoHist]

NextApp ==
    \/ onDownload
    \/ onPause
    \/ onStop
    \/ onDownloadCompleted
    \/ \E j \in Jobs : AppRun(j)

SpecApp == InitApp /\ [][NextApp]_vars

\* One resolution: extract_streams called with a link and cookies.
InitResolve ==
    /\ server = SrcLens
    /\ engine = "seq"
    /\ thread = [j \in Jobs |-> NoThread]
    /\ src = [j \in Jobs |-> NoSrc]
    /\ file \in [Paths -> {0}]
    /\ app = NoApp
    /\ queued = <<>>
    /\ conc = NoConc
    /\ rs \in {NewRs(v, l, c) : v \in Variants, l \in Links, c \in CookieValues}
    /\ hist = [j \in Jobs |-> NoHist]

NextResolve ==
    \/ ExtractStreams
    \/ RequestInfo
    \/ ParseInfo
    \/ RetryInfo
    \/ ParseRetry
    \/ ResolveManifest
    \/ DownloadVideo

SpecResolve == InitResolve /\ [][NextResolve]_vars

\* ------------------------------------------------------------ properties

\* C1: for a sequential job on which stop() is called while it is Running
\* or Paused, the job emits exactly one stopped event and no completed event
\* at or after the stop() call. Stated of the runs whose transport does not
\* fail and whose thread does not die, once run() has returned.
C1_StopEmitsStoppedNotCompleted ==
    \A j \in Jobs :
        (/\ hist[j].stopWhileActive
         /\ ~hist[j].transportFailed
         /\ thread[j].pc = "done")
        => (/\ thread[j].events.stopped = 1
            /\ ~hist[j].completedAfterStop)

\* C2: after pause() is called on a Running sequential job, at most one
\* chunk is read and at most one written (the one in flight), and once the
\* worker has seen the pause it reads and writes nothing, for as long as
\* resume() is not called.
C2_PauseHoldsBytesWritten ==
    \A j \in Jobs :
        thread[j].is_paused
        => (/\ hist[j].chunksSincePause <= 1
            /\ hist[j].readsSincePause <= 1
            /\ hist[j].pauseSeen => thread[j].pc \notin {"read", "write"})

\* A job paused while a chunk was in flight wrote that chunk and now sleeps.
C2_Witness ==
    /\ thread[1].is_paused
    /\ thread[1].pc = "sleep"
    /\ hist[1].chunksSincePause = 1
    /\ src[1].left > 0

\* C3: a sequential job whose source delivers N > 0 bytes without error and
\* which is never stopped ends with the completed event, bytesWritten = N,
\* a file of N bytes and a last reported percent of 100. Stated of the
\* thread once it no longer runs.
C3_ExhaustedSourceCompletes ==
    \A j \in Jobs :
        (/\ thread[j].pc \in {"done", "crashed"}
         /\ src[j].len > 0
         /\ ~hist[j].transportFailed
         /\ ~thread[j].is_stopped)
        => (/\ thread[j].events.completed = 1
            /\ thread[j].downloaded_size = src[j].len
            /\ file[thread[j].output_path] = src[j].len
            /\ thread[j].events.percent = 100)

\* C4: when the transport fails while a sequential job opens or reads the
\* stream, no completed event is emitted for that job (the failure is
\* reported by an event of its own).
C4_FailureIsNotCompleted ==
    \A j \in Jobs :
        hist[j].transportFailed => thread[j].events.completed = 0

\* C5: once a job has emitted a terminal event, no later pause(), resume()
\* or stop() makes it emit a further event or write further bytes.
C5_TerminalIsAbsorbing ==
    [][\A j \in Jobs :
          Terminal(thread[j])
          => (/\ thread'[j].events = thread[j].events
              /\ thread'[j].fpos = thread[j].fpos)]_vars

\* C6: in both engines the cumulative byte counter never decreases and,
\* when the total is known and nonzero, never exceeds it.
C6_CounterMonotoneAndBounded ==
    /\ [][/\ \A j \in Jobs :
               thread'[j].downloaded_size >= thread[j].downloaded_size
          /\ conc'.n >= conc.n]_vars
    /\ [](/\ \A j \in Jobs :
               thread[j].total_size # 0
               => thread[j].downloaded_size <= thread[j].total_size
          /\ conc.total_size # 0 => conc.n <= conc.total_size)

\* A concurrent job of several segments, the last one short, has counted
\* all of its bytes.
C6_Witness ==
    /\ conc.pc = "done"
    /\ conc.parts >= 3
    /\ conc.total_size % PartSize # 0
    /\ conc.n = conc.total_size

\* C7: at no time do two jobs have the same destination path open for
\* writing.
C7_OneWriterPerPath ==
    \A p \in Paths : Cardinality(Writers(p)) <= 1

\* The first response was read and the retry decided.
PastRetry == rs.first # Unset /\ rs.pc # "retry"

\* C8: when the first response holds both videoId and inKey no second
\* request is made, whatever the cookies; when it lacks inKey and cookies
\* were supplied exactly one second request is made and carries them; no
\* resolution makes more than two metadata requests.
C8_RetryOnlyOnceWithCookies ==
    /\ Len(rs.requests) <= 2
    /\ (rs.first # Unset /\ Complete(rs.first)) => Len(rs.requests) = 1
    /\ (PastRetry /\ rs.first.in_key = "None" /\ Supplied(rs.cookies))
       => (/\ Len(rs.requests) = 2
           /\ rs.requests[2].cookies = rs.cookies)

\* A response without inKey was answered by a second request with the
\* caller's cookies, and the resolution went on.
C8_Witness ==
    /\ rs.pc = "returned"
    /\ rs.first.video_id = "id"
    /\ rs.first.in_key = "None"
    /\ rs.cookies = "real"
    /\ Len(rs.requests) = 2
    /\ rs.requests[2].cookies = "real"
    /\ Complete(rs.content)

\* C9: a resolution with no cookies supplied makes exactly one metadata
\* request, whichever credential is missing.
C9_NoCookiesNoRetry ==
    rs.cookies = "None" => Len(rs.requests) <= 1

\* C10: if videoId or inKey is still missing after the optional retry, no
\* playback URL is composed from the pair, no manifest is requested and no
\* download starts.
C10_IncompletePairStops ==
    (PastRetry /\ rs.pc # "parse2" /\ ~Complete(rs.content))
    => (/\ ~rs.video_url.composed
        /\ rs.manifests = 0
        /\ rs.downloads = 0
        /\ rs.result # "tuple")

\* C11: when the metadata endpoint answers 404 the resolution ends by
\* reporting "not found", which is not what it reports for another failed
\* request, and it makes no second request.
C11_NotFoundIsDistinct ==
    (rs.pc = "returned" /\ Len(rs.requests) >= 1
     /\ rs.requests[1].status = 404)
    => (/\ rs.reported = <<"not found">>
        /\ Len(rs.requests) = 1)

\* C12: when every segment request of a concurrent job succeeds, the
\* destination file is totalBytes long once the job is marked complete,
\* whatever order the segments completed in and whatever the path held
\* before.
C12_FinalSizeIsTotal ==
    (conc.pc = "done" /\ conc.parts > 0)
    => file[conc.output_path] = conc.total_size

\* C13: a concurrent job is marked complete only after every scheduled
\* segment was received and appended; a job with a failed segment is never
\* marked complete, and no segment is requested more than once.
C13_CompleteOnlyAfterAllSegments ==
    /\ conc.pc = "done"
       => \A p \in PartIds : p < conc.parts => conc.part[p] = "taken"
    /\ (\E p \in PartIds : conc.part[p] \in {"failed", "raised"})
       => conc.pc # "done"
    /\ \A p \in PartIds : conc.sent[p] <= 1

\* One segment of several failed after another was appended: the job ended
\* by raising, the failed segment requested once.
C13_Witness ==
    /\ conc.pc = "raised"
    /\ conc.parts >= 3
    /\ \E p, q \in PartIds :
          /\ conc.part[p] = "raised" /\ conc.sent[p] = 1
          /\ conc.part[q] = "taken"

\* C14: whatever fails in a resolution (the link, a metadata request, the
\* cookie retry, the JSON, the manifest, the download), the operation ends
\* in a reported outcome its caller handles: no exception leaves
\* extract_streams and the caller's use of the result raises none.
C14_NoFailureEscapes ==
    rs.pc = "returned" => ~EscapedFault

\* C15: the concurrent engine schedules ceil(totalBytes / PartSize)
\* segments whose requested inclusive ranges lie inside [0, totalBytes - 1],
\* follow one another without gap or overlap from 0 to totalBytes - 1, and
\* are PartSize long except possibly the last, which is no longer.
C15_RangesPartitionSource ==
    LET t == conc.total_size
        k == conc.parts
        len(p) == RangeEnd(p, t) - RangeStart(p) + 1
    IN  /\ k * PartSize >= t
        /\ (k - 1) * PartSize < t
        /\ k > 0 => (RangeStart(0) = 0 /\ RangeEnd(k - 1, t) = t - 1)
        /\ \A p \in PartIds : p < k =>
               /\ 0 <= RangeStart(p)
               /\ RangeStart(p) <= RangeEnd(p, t)
               /\ RangeEnd(p, t) <= t - 1
               /\ len(p) <= PartSize
               /\ p < k - 1 => len(p) = PartSize
               /\ p < k - 1 => RangeStart(p + 1) = RangeEnd(p, t) + 1

\* C16: once a concurrent job that began with an empty destination is
\* marked complete, every segment's bytes begin at the file offset equal to
\* the segment's byteRangeStart, in whatever order the segments completed.
C16_SegmentsAtTheirOffsets ==
    (conc.pc = "done" /\ conc.base = 0)
    => \A i \in 1..Len(conc.written) :
          Appended(conc, i - 1) = RangeStart(conc.written[i])

\* C17: after stop() is called on a sequential job that is Running or
\* Paused, the stop flag stays set, the worker reads at most one more chunk
\* and writes at most one more, and when the thread has ended it has
\* emitted a terminal event.
C17_StopEndsWithinOneChunk ==
    \A j \in Jobs :
        hist[j].stopWhileActive
        => (/\ thread[j].is_stopped
            /\ hist[j].readsSinceStop <= 1
            /\ hist[j].writesSinceStop <= 1
            /\ ~isRunning(thread[j]) => Terminal(thread[j]))

\* C18: while a job is paused, a paused event is emitted only by the
\* worker's first observation of that pause: neither its later polls of the
\* same pause nor resume() emit one.
C18_OnePausedEventPerPause ==
    [][\A j \in Jobs :
          (/\ thread[j].is_paused
           /\ thread'[j].events.paused > thread[j].events.paused)
          => (/\ thread[j].pc = "pausetest"
              /\ thread'[j].pc = "sleep"
              /\ ~hist[j].pauseSeen)]_vars

\* C19: a sequential job whose source announces no content-length writes
\* and counts the chunks it receives without its thread dying on the
\* percent calculation.
C19_NoLengthIsGuarded ==
    \A j \in Jobs :
        (thread[j].total_size = 0 /\ thread[j].downloaded_size > 0)
        => thread[j].pc # "crashed"

\* C20: every metadata request carries a numeric video id taken from the
\* link; a link the parser rejects causes no request.
C20_RequestsCarryNumericId ==
    /\ \A i \in 1..Len(rs.requests) : rs.requests[i].video_no = "digits"
    /\ rs.link = "other" => rs.requests = <<>>

====
